---- MODULE Spec2Model ----
(***************************************************************************)
(* Harvest pipeline of reddit_extractor.py: get_json (retry / backoff),    *)
(* list_new_posts (pagination with a time cutoff and an item cap),         *)
(* list_comments, the relevance filter and scoring, and harvest (collect,  *)
(* sort).  Text is a sequence of one-character strings, so that substring  *)
(* and word-boundary matching are computed, not assumed.                   *)
(***************************************************************************)
EXTENDS Integers, Sequences, FiniteSets, TLC

(* ================================================================ bounds *)
\* The remote answers 429 at most this many times within one get_json call
\* (the code itself has no ceiling on that path).
Max429 == 5
\* Largest number of items the remote puts in one listing page (100 in the code's request).
MaxPage == 3
\* Largest --max_per_sub / max_items tried.
MaxCap == 3
\* Largest number of records the remote puts in one comments page.
MaxComments == 1
\* the clock is read at most this many 20-second steps after the run's start
MaxTicks == 3
\* list_comments is called with limits 0..MaxLimit
MaxLimit == 2
\* score_post is called with upvote scores and comment counts 0..MaxVotes
MaxVotes == 2

(* ============================================================= constants *)
\* get_json: `if tries > 3` gives the call up.
RetryCeiling == 3
\* get_json: wait = min(30, 2**tries) after a 429.
RateWaitCap == 30
\* get_json: wait = min(20, 2**tries) after any other failure.
RetryWaitCap == 20
\* score_post: min(10, number of matched keywords).
KeywordCap == 10
\* `now < self._exp - 30`
ReuseMargin == 30
\* int(j.get("expires_in", 3600))
DefaultExpiry == 3600

None == "None"
\* A numeric field the JSON record does not carry (p.get(...) is None).
Absent == -1

Min(a, b) == IF a < b THEN a ELSE b

RECURSIVE Pow2(_)
Pow2(n) == IF n = 0 THEN 1 ELSE 2 * Pow2(n - 1)

RECURSIVE CountOf(_, _)
CountOf(s, x) ==
    IF s = <<>> THEN 0
    ELSE (IF Head(s) = x THEN 1 ELSE 0) + CountOf(Tail(s), x)

Last(s) == s[Len(s)]

(* ============================================================ vocabulary *)
PLACE_ANCHORS ==
    <<
    <<"A", "l", "e", "x", "a", "n", "d", "r", "i", "a">>,
    <<"D", "e", "l", " ", "R", "a", "y">>,
    <<"O", "l", "d", " ", "T", "o", "w", "n">>,
    <<"P", "o", "t", "o", "m", "a", "c", " ", "Y", "a", "r", "d">>,
    <<"E", "i", "s", "e", "n", "h", "o", "w", "e", "r">>,
    <<"K", "i", "n", "g", " ", "S", "t">>,
    <<"D", "u", "k", "e", " ", "S", "t">>,
    <<"V", "a", "n", " ", "D", "o", "r", "n">>,
    <<"S", "e", "m", "i", "n", "a", "r", "y">>,
    <<"B", "e", "a", "u", "r", "e", "g", "a", "r", "d">>,
    <<"L", "a", "n", "d", "m", "a", "r", "k">>,
    <<"C", "a", "m", "e", "r", "o", "n">>,
    <<"S", "l", "a", "t", "e", "r", "s">>,
    <<"H", "u", "n", "t", "i", "n", "g", "t", "o", "n">>,
    <<"F", "a", "i", "r", "f", "a", "x", " ", "C", "o", "u", "n", "t", "y">>,
    <<"A", "r", "l", "a", "n", "d", "r", "i", "a">>,
    <<"R", "o", "s", "e", "m", "o", "n", "t">>,
    <<"N", "o", "r", "t", "h", " ", "R", "i", "d", "g", "e">>,
    <<"W", "e", "s", "t", " ", "E", "n", "d">>
    >>

INCIDENT_TERMS ==
    <<
    <<"f", "i", "r", "e">>,
    <<"s", "m", "o", "k", "e">>,
    <<"e", "x", "p", "l", "o", "s", "i", "o", "n">>,
    <<"g", "a", "s", " ", "l", "e", "a", "k">>,
    <<"e", "v", "a", "c", "u", "a", "t", "i", "o", "n">>,
    <<"h", "a", "z", "m", "a", "t">>,
    <<"s", "h", "e", "l", "t", "e", "r", " ", "i", "n", " ", "p", "l", "a", "c", "e">>,
    <<"s", "h", "o", "o", "t", "i", "n", "g">>,
    <<"s", "h", "o", "t", "s", " ", "f", "i", "r", "e", "d">>,
    <<"s", "t", "a", "b", "b", "i", "n", "g">>,
    <<"a", "s", "s", "a", "u", "l", "t">>,
    <<"a", "c", "c", "i", "d", "e", "n", "t">>,
    <<"c", "r", "a", "s", "h">>,
    <<"p", "i", "l", "e", "u", "p">>,
    <<"h", "i", "t", " ", "a", "n", "d", " ", "r", "u", "n">>,
    <<"f", "l", "o", "o", "d">>,
    <<"f", "l", "a", "s", "h", " ", "f", "l", "o", "o", "d">>,
    <<"w", "a", "t", "e", "r", " ", "m", "a", "i", "n">>,
    <<"s", "i", "n", "k", "h", "o", "l", "e">>,
    <<"p", "o", "w", "e", "r", " ", "o", "u", "t", "a", "g", "e">>,
    <<"d", "o", "w", "n", "e", "d", " ", "l", "i", "n", "e", "s">>,
    <<"t", "r", "a", "n", "s", "f", "o", "r", "m", "e", "r">>,
    <<"r", "o", "a", "d", " ", "c", "l", "o", "s", "e", "d">>,
    <<"b", "r", "i", "d", "g", "e", " ", "c", "l", "o", "s", "e", "d">>,
    <<"p", "o", "l", "i", "c", "e", " ", "a", "c", "t", "i", "v", "i", "t", "y">>,
    <<"s", "i", "r", "e", "n", "s">>,
    <<"h", "e", "l", "i", "c", "o", "p", "t", "e", "r">>,
    <<"m", "e", "d", "e", "v", "a", "c">>
    >>

HIGH_PRIORITY_PATTERNS ==
    <<
    <<<<"s", "h", "o", "o", "t", "i", "n", "g">>>>,
    <<<<"s", "h", "o", "t", "s">>, <<"f", "i", "r", "e", "d">>>>,
    <<<<"s", "t", "a", "b", "b", "i", "n", "g">>>>,
    <<<<"e", "x", "p", "l", "o", "s", "i", "o", "n">>>>,
    <<<<"h", "a", "z", "m", "a", "t">>>>,
    <<<<"s", "h", "e", "l", "t", "e", "r">>, <<"i", "n">>, <<"p", "l", "a", "c", "e">>>>,
    <<<<"m", "a", "j", "o", "r">>, <<"a", "c", "c", "i", "d", "e", "n", "t">>>>,
    <<<<"m", "u", "l", "t", "i", "-", "v", "e", "h", "i", "c", "l", "e">>, <<"c", "r", "a", "s", "h">>>>,
    <<<<"p", "i", "l", "e", "u", "p">>>>,
    <<<<"a", "c", "t", "i", "v", "e">>, <<"p", "o", "l", "i", "c", "e">>, <<"a", "c", "t", "i", "v", "i", "t", "y">>>>,
    <<<<"p", "o", "l", "i", "c", "e">>, <<"b", "l", "o", "c", "k", "e", "d">>>>,
    <<<<"c", "r", "i", "m", "e">>, <<"s", "c", "e", "n", "e">>>>,
    <<<<"l", "a", "r", "g", "e">>, <<"f", "i", "r", "e">>>>,
    <<<<"s", "t", "r", "u", "c", "t", "u", "r", "e">>, <<"f", "i", "r", "e">>>>,
    <<<<"a", "p", "a", "r", "t", "m", "e", "n", "t">>, <<"f", "i", "r", "e">>>>
    >>

KEYWORDS == INCIDENT_TERMS \o PLACE_ANCHORS

\* r"\balexandria\b", searched with re.I
PRIMARY_PLACE == <<"a", "l", "e", "x", "a", "n", "d", "r", "i", "a">>

(* ================================================================== text *)
\* The characters of the modelled texts in code-point order: CodeOf is
\* order-isomorphic to ord() on them.
Alphabet ==
    <<"\n", " ", "-", "0", "1", "2", "3", "4", "5", "6", "7", "8", "9",
      "A", "B", "C", "D", "E", "F", "G", "H", "I", "J", "K", "L", "M",
      "N", "O", "P", "Q", "R", "S", "T", "U", "V", "W", "X", "Y", "Z", "_",
      "a", "b", "c", "d", "e", "f", "g", "h", "i", "j", "k", "l", "m",
      "n", "o", "p", "q", "r", "s", "t", "u", "v", "w", "x", "y", "z">>

Chars == {Alphabet[i] : i \in 1..Len(Alphabet)}

\* ord(c), up to an order-preserving renumbering
CodeOf == [c \in Chars |-> CHOOSE i \in 1..Len(Alphabet) : Alphabet[i] = c]

\* str.lower() on one character
LowerOf ==
    [c \in Chars |->
        IF CodeOf[c] >= CodeOf["A"] /\ CodeOf[c] <= CodeOf["Z"]
        THEN Alphabet[CodeOf[c] + (CodeOf["a"] - CodeOf["A"])]
        ELSE c]

LowerChar(c) == LowerOf[c]

\* str.lower()
Lower(s) == [i \in 1..Len(s) |-> LowerChar(s[i])]

\* `k in s` on strings
Contains(s, k) ==
    \E i \in 1..(Len(s) - Len(k) + 1) : \A j \in 1..Len(k) : s[i + j - 1] = k[j]

\* a < b on strings (code-point lexicographic order)
RECURSIVE StrLess(_, _)
StrLess(a, b) ==
    IF b = <<>> THEN FALSE
    ELSE IF a = <<>> THEN TRUE
    ELSE IF Head(a) = Head(b) THEN StrLess(Tail(a), Tail(b))
    ELSE CodeOf[Head(a)] < CodeOf[Head(b)]

\* sorted(S) of a set of strings
RECURSIVE SortedStrings(_)
SortedStrings(S) ==
    IF S = {} THEN <<>>
    ELSE LET m == CHOOSE x \in S : \A y \in S \ {x} : StrLess(x, y)
         IN  <<m>> \o SortedStrings(S \ {m})

\* Regex \w and \s on the modelled characters
IsWordChar(c) == c \notin {"\n", " ", "-"}
IsSpace(c) == c \in {"\n", " "}

\* First position at or after i that holds no whitespace (Len(s)+1 when none).
RECURSIVE SkipSpace(_, _)
SkipSpace(s, i) ==
    IF i <= Len(s) /\ IsSpace(s[i]) THEN SkipSpace(s, i + 1) ELSE i

\* Match of frag1 \s+ frag2 \s+ ... at position i of s: the position after
\* the match, or 0 when there is none.
RECURSIVE MatchAt(_, _, _)
MatchAt(frags, s, i) ==
    LET f == Head(frags)
        e == i + Len(f)
    IN  IF e - 1 > Len(s) \/ SubSeq(s, i, e - 1) # f THEN 0
        ELSE IF Len(frags) = 1 THEN e
        ELSE LET j == SkipSpace(s, e)
             IN  IF j = e THEN 0 ELSE MatchAt(Tail(frags), s, j)

\* re.search(r"\b(frag1\s+frag2...)\b", s): every alternative begins and
\* ends with a word character, so \b asks for a non-word neighbour (or the
\* end of the text) on each side.
SearchWord(frags, s) ==
    \E i \in 1..Len(s) :
        /\ (i = 1 \/ ~IsWordChar(s[i - 1]))
        /\ LET e == MatchAt(frags, s, i)
           IN  e # 0 /\ (e > Len(s) \/ ~IsWordChar(s[e]))

contains_keywords(text, kws) ==
    LET low == Lower(text)
    IN  SortedStrings({kws[i] : i \in {j \in DOMAIN kws : Contains(low, Lower(kws[j]))}})

high_priority(text) ==
    LET low == Lower(text)
    IN  \E i \in DOMAIN HIGH_PRIORITY_PATTERNS : SearchWord(HIGH_PRIORITY_PATTERNS[i], low)

\* f"{title}\n{body}"
Combined(title, body) == title \o <<"\n">> \o body

\* `x or 0` on a numeric field
OrZero(x) == IF x = Absent THEN 0 ELSE x

\* re.search(r"\balexandria\b", text, re.I)
names_primary_place(text) == SearchWord(<<PRIMARY_PLACE>>, Lower(text))

(* ========================================================= sample texts *)
\* "Structure fire on Duke St"
TitleFire ==
    <<"S", "t", "r", "u", "c", "t", "u", "r", "e", " ", "f", "i", "r", "e", " ", "o", "n", " ", "D", "u", "k", "e", " ", "S", "t">>
\* "Alexandria market"
TitleMarket ==
    <<"A", "l", "e", "x", "a", "n", "d", "r", "i", "a", " ", "m", "a", "r", "k", "e", "t">>
\* "Lost cat"
TitleCat ==
    <<"L", "o", "s", "t", " ", "c", "a", "t">>
\* "Flood on King St"
TitleFlood ==
    <<"F", "l", "o", "o", "d", " ", "o", "n", " ", "K", "i", "n", "g", " ", "S", "t">>
\* ""
BodyNone ==
    <<>>
\* "campfire in alexandrian style"
BodyCampfire ==
    <<"c", "a", "m", "p", "f", "i", "r", "e", " ", "i", "n", " ", "a", "l", "e", "x", "a", "n", "d", "r", "i", "a", "n", " ", "s", "t", "y", "l", "e">>
\* "Shots  fired"
CommentShots ==
    <<"S", "h", "o", "t", "s", " ", " ", "f", "i", "r", "e", "d">>
\* "nice"
CommentNice ==
    <<"n", "i", "c", "e">>
\* "Smoke seen"
TitleSmoke ==
    <<"S", "m", "o", "k", "e", " ", "s", "e", "e", "n">>
\* "Crime scene in Alexandria"
TitleScene ==
    <<"C", "r", "i", "m", "e", " ", "s", "c", "e", "n", "e", " ", "i", "n", " ", "A", "l", "e", "x", "a", "n", "d", "r", "i", "a">>
\* "fire smoke flood crash sirens assault accident sinkhole transformer helicopter"
TitleTen ==
    <<"f", "i", "r", "e", " ", "s", "m", "o", "k", "e", " ", "f", "l", "o", "o", "d", " ", "c", "r", "a", "s", "h", " ", "s", "i", "r", "e", "n", "s", " ", "a", "s", "s", "a", "u", "l", "t", " ", "a", "c", "c", "i", "d", "e", "n", "t", " ", "s", "i", "n", "k", "h", "o", "l", "e", " ", "t", "r", "a", "n", "s", "f", "o", "r", "m", "e", "r", " ", "h", "e", "l", "i", "c", "o", "p", "t", "e", "r">>
\* "medevac"
BodyMedevac ==
    <<"m", "e", "d", "e", "v", "a", "c">>

(* ============================================================= catalogue *)
\* harvest: since_utc = now - hours, fixed for the run.
since_utc == 100

\* RawItem records the remote can serve (the fields harvest reads; author,
\* url and permalink are copied to the row untouched and are left out).
PostFire ==
    [id |-> "p1", created_utc |-> since_utc + 5, title |-> TitleFire,
     selftext |-> BodyNone, score |-> 0, num_comments |-> 0]
PostFireLater ==
    [id |-> "p2", created_utc |-> since_utc + 3, title |-> TitleFire,
     selftext |-> BodyNone, score |-> Absent, num_comments |-> 0]
PostMarket ==
    [id |-> "p3", created_utc |-> since_utc + 3, title |-> TitleMarket,
     selftext |-> BodyCampfire, score |-> 1, num_comments |-> 1]
PostCat ==
    [id |-> "p4", created_utc |-> since_utc, title |-> TitleCat,
     selftext |-> BodyNone, score |-> 2, num_comments |-> 1]
PostOld ==
    [id |-> "p5", created_utc |-> since_utc - 1, title |-> TitleFlood,
     selftext |-> BodyNone, score |-> 4, num_comments |-> 0]
PostUndated ==
    [id |-> "p6", created_utc |-> Absent, title |-> TitleFire,
     selftext |-> BodyNone, score |-> 0, num_comments |-> 0]
PostZero ==
    [id |-> "p7", created_utc |-> 0, title |-> TitleFire,
     selftext |-> BodyNone, score |-> 0, num_comments |-> 0]

\* PostCat is dated exactly at the cutoff.
Catalogue == {PostFire, PostFireLater, PostMarket, PostCat, PostOld, PostUndated, PostZero}

\* Comment records of a comments page: kind "t1" is a comment, "more" a stub.
CommentRecords ==
    { [kind |-> "t1", body |-> CommentShots],
      [kind |-> "t1", body |-> CommentNice],
      [kind |-> "t1", body |-> BodyNone],
      [kind |-> "more", body |-> CommentShots] }

Cursors == {"t3_next"}

\* The first two of DEFAULT_SUBS
DEFAULT_SUBS == <<"AlexandriaVA", "nova">>

\* Sequences over S of length at most n
SeqsUpTo(S, n) == UNION {[1..k -> S] : k \in 0..n}

\* "\n".join(lines)
RECURSIVE JoinWith(_, _)
JoinWith(lines, sep) ==
    IF lines = <<>> THEN <<>>
    ELSE IF Len(lines) = 1 THEN Head(lines)
    ELSE Head(lines) \o sep \o JoinWith(Tail(lines), sep)

\* str.strip()
RECURSIVE Strip(_)
Strip(s) ==
    IF s = <<>> THEN s
    ELSE IF IsSpace(Head(s)) THEN Strip(Tail(s))
    ELSE IF IsSpace(Last(s)) THEN Strip(SubSeq(s, 1, Len(s) - 1))
    ELSE s

\* body = (body + "\n" + "\n".join(cm)).strip()
Augmented(body, cm) == Strip(body \o <<"\n">> \o JoinWith(cm, <<"\n">>))

(* =============================================================== scoring *)
\* Titles and bodies score_post is called on directly.
ScoreTitles == {TitleCat, TitleSmoke, TitleScene, TitleTen, TitleFire, TitleMarket}
ScoreBodies == {BodyNone, BodyMedevac}

\* The texts the filter can meet in the runs below: a catalogued title with
\* its body, bare or augmented with comment bodies.  The three text
\* predicates are tabulated over them once (a definition without state is
\* evaluated a single time); any other text is computed directly.
KnownTexts ==
    UNION { { Combined(p.title, p.selftext) }
            \cup { Combined(p.title, Augmented(p.selftext, cm)) :
                      cm \in SeqsUpTo({r.body : r \in CommentRecords}, MaxComments) }
          : p \in Catalogue }
    \cup { Combined(title, body) : title \in ScoreTitles, body \in ScoreBodies }

KeywordTable == [t \in KnownTexts |-> contains_keywords(t, KEYWORDS)]
PriorityTable == [t \in KnownTexts |-> high_priority(t)]
PlaceTable == [t \in KnownTexts |-> names_primary_place(t)]

\* contains_keywords(text, KEYWORDS)
KeywordsIn(text) ==
    IF text \in KnownTexts THEN KeywordTable[text] ELSE contains_keywords(text, KEYWORDS)

\* high_priority(text)
IsHighPriority(text) ==
    IF text \in KnownTexts THEN PriorityTable[text] ELSE high_priority(text)

NeverNamesPlace(text) == FALSE

\* re.search(r"\balexandria\b", text, re.I)
NamesPrimaryPlace(text) ==
    IF text \in KnownTexts THEN PlaceTable[text] ELSE names_primary_place(text)

UncappedPart(n) == n

\* min(10, len(contains_keywords(text, KEYWORDS)))
KeywordPart(n) == Min(KeywordCap, n)

\* score_post, in hundredths (every term is a multiple of 0.1, so round(s, 2)
\* changes nothing): 1.5 per keyword up to 10, 0.2 per upvote, 0.1 per
\* comment, +10 high priority, +3 primary place name.
score_post(title, body, score, num_comments) ==
    LET text == Combined(title, body)
    IN  KeywordPart(Len(KeywordsIn(text))) * 150
        + OrZero(score) * 20 + OrZero(num_comments) * 10
        + (IF IsHighPriority(text) THEN 1000 ELSE 0)
        + (IF NamesPrimaryPlace(text) THEN 300 ELSE 0)

\* The arguments of one score_post call.
ScoreArgs ==
    [title : ScoreTitles, body : ScoreBodies,
     score : {Absent} \cup 0..MaxVotes, num_comments : {Absent} \cup 0..MaxVotes]

NoArgs == [title |-> BodyNone, body |-> BodyNone, score |-> Absent, num_comments |-> Absent]

(* ====================================================== response bodies *)
\* A parsed JSON body, by the shape its readers look at:
\*   "empty"    {}                        (also what get_json gives up with)
\*   "listing"  {"data": {"children": [...], "after": ...}}
\*   "datanull" {"data": null}
\*   "array1"   [ {...} ]                 (a JSON array with one section)
\*   "array"    [ {...}, {"data": {"children": [...]}} ]
\*   "arraynull" [ {...}, {"data": null} ]
Body(shape, children, after) ==
    [shape |-> shape, children |-> children, after |-> after]

EmptyResult == Body("empty", <<>>, None)

MalformedBodies == {EmptyResult, Body("datanull", <<>>, None), Body("array1", <<>>, None)}

ListingBodies(posts, maxPage) ==
    {Body("listing", ch, a) : ch \in SeqsUpTo(posts, maxPage), a \in Cursors \cup {None}}

CommentBodies(records, maxComments) ==
    {Body("array", ch, None) : ch \in SeqsUpTo(records, maxComments)}
    \cup {Body("arraynull", <<>>, None)}

VARIABLES
    cfg,      \* the run's configuration: subs, sleep_ms, include_comments, max_per_sub, comments_limit
    env,      \* what the remote may do: max429, posts, maxPage, maxComments, comments
    fpc,      \* get_json: "idle" (no call), "req" (in the while loop), "ret" (returned)
    freq,     \* get_json: the request of the call (kind, sub, after / post id)
    tries,    \* get_json: the local `tries`
    hist,     \* the remote's answers to this call so far, by class: "429", "fail", "ok"
    waits,    \* the backoff time.sleep calls of this call, in seconds, in order
    jit,      \* the jitter time.sleep of this call, in milliseconds (0: none)
    fres,     \* get_json: the value returned
    sent,     \* the body of the remote's last 200 answer to this call
    wpc,      \* list_new_posts: "idle", "loop" (at the while test), "await" (in get_json), "ret"
    wsub,     \* list_new_posts: sub
    max_items, \* list_new_posts: max_items
    out,      \* list_new_posts: out
    after,    \* list_new_posts: after
    page,     \* list_new_posts: page
    feed,     \* the children of the pages this walk received, concatenated in fetch order
    lastAfter, \* the cursor carried by the last page this walk received
    sawOld,   \* this walk met an item older than the cutoff
    url,      \* list_new_posts: the host of url
    exc,      \* the exception propagating out of the run (None: none)
    hpc,      \* harvest: "idle", "sub" (at `for sub`), "listing" (in list_new_posts),
              \*          "item" (at `for p`), "comments" (in list_comments), "done"
    si,       \* harvest: position of `sub` in subs
    posts,    \* harvest: posts
    pi,       \* harvest: position of `p` in posts
    rows,     \* harvest: rows
    seen,     \* the items harvest has filtered so far, each with the body it was filtered on
              \* and the comments fetched for it
    has_creds, \* RedditAuth: client id and secret were both supplied
    token,    \* RedditAuth._token (None: none held)
    exp,      \* RedditAuth._exp
    clock,    \* the last value time.time() gave
    xfailed,  \* a token exchange has failed in this run
    hdr,      \* get_json: the headers of the request last issued by this call
    probe,    \* what the _ensure_token call behind hdr met and did
    cpc,      \* list_comments: "idle", "await" (in get_json), "ret"
    climit,   \* list_comments: limit
    cout,     \* list_comments: the value returned
    spc,      \* score_post called twice: "idle", "args", "one" (first call made), "two"
    sa,       \* the arguments of the first call
    sb,       \* the arguments of the second call
    ra,       \* the value of the first call, in hundredths
    rb        \* the value of the second call, in hundredths

fvars == <<fpc, freq, tries, hist, waits, jit, fres, sent, hdr, probe>>
wvars == <<wpc, wsub, max_items, out, after, page, feed, lastAfter, sawOld, url>>
hvars == <<hpc, si, posts, pi, rows, seen>>
avars == <<has_creds, token, exp, clock, xfailed>>
cvars == <<cpc, climit, cout>>
svars == <<spc, sa, sb, ra, rb>>
vars == <<cfg, env, fvars, wvars, exc, hvars, avars, cvars, svars>>

(* ============================================================ RedditAuth *)
\* time.time() at the start of the run, in seconds
StartTime == 1000

PRIVATE_HOST == "https://oauth.reddit.com"
PUBLIC_HOST == "https://www.reddit.com"

\* RedditAuth.user_agent
USER_AGENT == "alexandria-eas/1.3"

\* RedditAuth.base_url()
base_url == IF has_creds THEN PRIVATE_HOST ELSE PUBLIC_HOST

Tokens == {"tokA", "tokB"}

\* What the credential-grant POST can come to: "raise" is requests.post
\* raising, a non-2xx status, an unparsable body or an expires_in that is not
\* a number; "json" is a parsed object, with or without access_token and
\* expires_in.
GrantAnswers ==
    { [kind |-> "raise", access_token |-> None, expires_in |-> Absent] }
    \cup { [kind |-> "json", access_token |-> a, expires_in |-> e] :
              a \in Tokens \cup {None}, e \in {50, Absent} }

\* The clock values a read of time.time() can give after the value c.
ClockAfter(c) == {c + 20 * k : k \in 0..2} \cap (StartTime..(StartTime + 20 * MaxTicks))

FreshNoMargin(tok, t, ex) == tok # None /\ t < ex

\* `if self._token and now < self._exp - 30`
Fresh(tok, t, ex) == tok # None /\ t < ex - ReuseMargin

\* _ensure_token at time t with the grant answering g (when asked): the new
\* _token and _exp, the value returned, whether the grant was called and
\* whether it failed.
ensure_token(tok, ex, t, g) ==
    IF Fresh(tok, t, ex)
    THEN [token |-> tok, exp |-> ex, ret |-> tok, granted |-> FALSE, failed |-> FALSE]
    ELSE IF g.kind = "raise"
    THEN [token |-> None, exp |-> 0, ret |-> None, granted |-> TRUE, failed |-> TRUE]
    ELSE [token |-> g.access_token,
          exp |-> t + (IF g.expires_in = Absent THEN DefaultExpiry ELSE g.expires_in),
          ret |-> g.access_token, granted |-> TRUE, failed |-> FALSE]

NoHeaders == [ua |-> None, authz |-> None]

NoProbe == [called |-> FALSE, at |-> 0, held |-> None, heldExp |-> 0, granted |-> FALSE]

\* auth.headers(): User-Agent always; with credentials, _ensure_token and,
\* if it returned a token, Authorization.
CallHeaders ==
    IF has_creds
    THEN \E t \in ClockAfter(clock) : \E g \in GrantAnswers :
            LET r == ensure_token(token, exp, t, g)
            IN  /\ clock' = t
                /\ token' = r.token
                /\ exp' = r.exp
                /\ xfailed' = (xfailed \/ r.failed)
                /\ hdr' = [ua |-> USER_AGENT, authz |-> r.ret]
                /\ probe' = [called |-> TRUE, at |-> t, held |-> token, heldExp |-> exp,
                             granted |-> r.granted]
    ELSE /\ hdr' = [ua |-> USER_AGENT, authz |-> None]
         /\ UNCHANGED <<probe, token, exp, clock, xfailed>>

\* RedditAuth(client_id, client_secret, user_agent) without credentials.
NoCreds ==
    /\ has_creds = FALSE
    /\ token = None
    /\ exp = 0
    /\ clock = StartTime
    /\ xfailed = FALSE

(* ============================================================== get_json *)
\* What the remote can answer to a request.  status 0: requests.get raised
\* (network error, timeout); json FALSE: the body does not parse.
Response(status, json, body) == [status |-> status, json |-> json, body |-> body]

Responses(req) ==
    { Response(429, FALSE, EmptyResult), Response(0, FALSE, EmptyResult),
      Response(500, FALSE, EmptyResult), Response(200, FALSE, EmptyResult) }
    \cup { Response(200, TRUE, b) :
              b \in MalformedBodies
                    \cup (IF req.kind = "listing" THEN ListingBodies(env.posts, env.maxPage)
                          ELSE CommentBodies(env.comments, env.maxComments)) }

\* The class of an answer, by what the remote sent.
ClassOf(r) ==
    IF r.status = 429 THEN "429"
    ELSE IF r.status = 200 /\ r.json THEN "ok"
    ELSE "fail"

N429 == CountOf(hist, "429")
NFail == CountOf(hist, "fail")

NeverRateLimited(r) == FALSE

\* `if r.status_code == 429`
IsRateLimited(r) == r.status = 429

\* requests.get raising, r.raise_for_status() raising (4xx, 5xx) or r.json() raising
Raises(r) == r.status = 0 \/ r.status >= 400 \/ ~r.json

GiveUpEarly(t) == t >= RetryCeiling

\* `if tries > 3`
GiveUp(t) == t > RetryCeiling

\* wait = min(30, 2**tries)
RateWait(t) == Min(RateWaitCap, Pow2(t))

\* wait = min(20, 2**tries)
RetryWait(t) == Min(RetryWaitCap, Pow2(t))

\* random.uniform(ms*0.7, ms*1.3), in milliseconds: both ends and the middle
Jitter(ms) == {(ms * 7) \div 10, ms, (ms * 13) \div 10}

\* The caller's `get_json(url, params, ...)`: a fresh frame, tries = 0.
CallGetJson(req) ==
    /\ fpc' = "req"
    /\ freq' = req
    /\ tries' = 0
    /\ hist' = <<>>
    /\ waits' = <<>>
    /\ jit' = 0
    /\ fres' = EmptyResult
    /\ sent' = EmptyResult
    /\ hdr' = NoHeaders
    /\ probe' = NoProbe

\* The frame of a returned call is dropped once the caller has its value.
DropGetJson ==
    /\ fpc' = "idle"
    /\ freq' = [kind |-> "none", host |-> None, sub |-> None, after |-> None]
    /\ tries' = 0
    /\ hist' = <<>>
    /\ waits' = <<>>
    /\ jit' = 0
    /\ fres' = EmptyResult
    /\ sent' = EmptyResult
    /\ hdr' = NoHeaders
    /\ probe' = NoProbe

\* One iteration that ends in the 429 branch: tries += 1, sleep, continue.
GetJsonRateLimited ==
    /\ fpc = "req"
    /\ N429 < env.max429
    /\ \E r \in Responses(freq) :
          /\ IsRateLimited(r)
          /\ tries' = tries + 1
          /\ hist' = Append(hist, ClassOf(r))
          /\ waits' = Append(waits, RateWait(tries + 1))
    /\ CallHeaders
    /\ UNCHANGED <<fpc, freq, jit, fres, sent, cfg, env, wvars, exc, hvars, has_creds, cvars, svars>>

\* One iteration that ends in the except branch: tries += 1, then either
\* give up with {} or sleep and loop.
GetJsonFailed ==
    /\ fpc = "req"
    /\ \E r \in Responses(freq) :
          /\ ~IsRateLimited(r)
          /\ Raises(r)
          /\ r.status # 429 \/ N429 < env.max429
          /\ tries' = tries + 1
          /\ hist' = Append(hist, ClassOf(r))
          /\ IF GiveUp(tries + 1)
             THEN /\ fpc' = "ret"
                  /\ fres' = EmptyResult
                  /\ waits' = waits
             ELSE /\ fpc' = "req"
                  /\ fres' = fres
                  /\ waits' = Append(waits, RetryWait(tries + 1))
    /\ CallHeaders
    /\ UNCHANGED <<freq, jit, sent, cfg, env, wvars, exc, hvars, has_creds, cvars, svars>>

\* One iteration that succeeds: optional jitter sleep, return r.json().
GetJsonOk ==
    /\ fpc = "req"
    /\ \E r \in Responses(freq) :
          /\ ~IsRateLimited(r)
          /\ ~Raises(r)
          /\ hist' = Append(hist, ClassOf(r))
          /\ sent' = r.body
          /\ fres' = r.body
    /\ IF cfg.sleep_ms # 0
       THEN \E j \in Jitter(cfg.sleep_ms) : jit' = j
       ELSE jit' = jit
    /\ fpc' = "ret"
    /\ CallHeaders
    /\ UNCHANGED <<freq, tries, waits, cfg, env, wvars, exc, hvars, has_creds, cvars, svars>>

\* No get_json frame.
NoGetJson ==
    /\ fpc = "idle"
    /\ freq = [kind |-> "none", host |-> None, sub |-> None, after |-> None]
    /\ tries = 0
    /\ hist = <<>>
    /\ waits = <<>>
    /\ jit = 0
    /\ fres = EmptyResult
    /\ sent = EmptyResult
    /\ hdr = NoHeaders
    /\ probe = NoProbe

\* No list_comments frame.
NoListComments ==
    /\ cpc = "idle"
    /\ climit = 0
    /\ cout = <<>>

\* score_post is not being called.
NoScore ==
    /\ spc = "idle"
    /\ sa = NoArgs
    /\ sb = NoArgs
    /\ ra = 0
    /\ rb = 0

\* harvest is not running.
NoHarvest ==
    /\ hpc = "idle"
    /\ si = 0
    /\ posts = <<>>
    /\ pi = 0
    /\ rows = <<>>
    /\ seen = <<>>

\* No list_new_posts frame.
NoListNew ==
    /\ wpc = "idle"
    /\ wsub = None
    /\ max_items = 0
    /\ out = <<>>
    /\ after = None
    /\ page = 0
    /\ feed = <<>>
    /\ lastAfter = None
    /\ sawOld = FALSE
    /\ url = None

(* ---------------------------------------------- get_json called directly *)
FetchRequests ==
    { [kind |-> "listing", host |-> PUBLIC_HOST, sub |-> "nova", after |-> None],
      [kind |-> "comments", host |-> PUBLIC_HOST, sub |-> "nova", after |-> "p1"] }

InitFetch ==
    /\ cfg \in [sleep_ms : {0, 10}, include_comments : {FALSE},
                max_per_sub : {MaxCap}, comments_limit : {2}, subs : {DEFAULT_SUBS}]
    /\ env = [max429 |-> Max429, posts |-> {PostFire, PostOld}, maxPage |-> 1, maxComments |-> 1,
              comments |-> CommentRecords]
    /\ fpc = "req"
    /\ freq \in FetchRequests
    /\ tries = 0
    /\ hist = <<>>
    /\ waits = <<>>
    /\ jit = 0
    /\ fres = EmptyResult
    /\ sent = EmptyResult
    /\ hdr = NoHeaders
    /\ probe = NoProbe
    /\ NoListNew
    /\ NoHarvest
    /\ exc = None
    /\ NoListComments
    /\ NoScore
    /\ NoCreds

NextFetch == GetJsonRateLimited \/ GetJsonFailed \/ GetJsonOk

SpecFetch == InitFetch /\ [][NextFetch]_vars
(* ======================================================== list_new_posts *)
CreatedAbsentFresh(p) == IF p.created_utc = Absent THEN since_utc ELSE p.created_utc

\* created = float(p.get("created_utc", 0) or 0)
Created(p) == OrZero(p.created_utc)

IsOlderOrEqual(created) == created <= since_utc

\* `if created < since_utc`
IsOlder(created) == created < since_utc

SkipsOlder == FALSE

\* `return out` in the branch of an older item
StopsAtOlder == TRUE

CapNever(n, m) == FALSE

\* `if len(out) >= max_items: return out`
CapReached(n, m) == n >= m

\* The for loop over one page's children, from accumulator acc: the new
\* accumulator and how the loop ended ("old": return at an older item, "cap":
\* return at the cap, "end": the page is used up), and whether an older item was met.
RECURSIVE ScanPage(_, _, _, _)
ScanPage(children, acc, cap, met) ==
    IF children = <<>> THEN [out |-> acc, stop |-> "end", met |-> met]
    ELSE IF IsOlder(Created(Head(children)))
         THEN IF StopsAtOlder
              THEN [out |-> acc, stop |-> "old", met |-> TRUE]
              ELSE ScanPage(Tail(children), acc, cap, TRUE)
    ELSE LET acc2 == Append(acc, Head(children))
         IN  IF CapReached(Len(acc2), cap)
             THEN [out |-> acc2, stop |-> "cap", met |-> met]
             ELSE ScanPage(Tail(children), acc2, cap, met)

\* data.get("data", {}).get(...) raises AttributeError when data is a JSON
\* array or data["data"] is null.
ListingRaises(data) == data.shape \in {"array", "array1", "arraynull", "datanull"}

\* data.get("data", {}).get("children", [])
ChildrenOf(data) == IF data.shape = "listing" THEN data.children ELSE <<>>

\* data.get("data", {}).get("after")
AfterOf(data) == IF data.shape = "listing" THEN data.after ELSE None

NeverNoChildren(children) == FALSE

\* `if not children: break`
NoChildren(children) == children = <<>>

NeverNoCursor(a) == FALSE

\* `if not after: break`
NoCursor(a) == a = None

\* The caller's `list_new_posts(sub, since_utc, max_items, ...)`: a fresh frame.
CallListNew(sub, cap) ==
    /\ wpc' = "loop"
    /\ wsub' = sub
    /\ max_items' = cap
    /\ out' = <<>>
    /\ after' = None
    /\ page' = 0
    /\ feed' = <<>>
    /\ lastAfter' = None
    /\ sawOld' = FALSE
    /\ url' = base_url

\* `while len(out) < max_items`: either the next page is requested (with the
\* cursor of the page before, if any) or the loop ends and out is returned.
ListNewLoop ==
    /\ wpc = "loop"
    /\ IF Len(out) < max_items
       THEN /\ page' = page + 1
            /\ wpc' = "await"
            /\ CallGetJson([kind |-> "listing", host |-> url, sub |-> wsub, after |-> after])
       ELSE /\ wpc' = "ret"
            /\ page' = page
            /\ UNCHANGED fvars
    /\ UNCHANGED <<wsub, max_items, out, after, feed, lastAfter, sawOld, url, cfg, env, exc, hvars, avars, cvars, svars>>

\* The rest of one loop body, once get_json has returned the page.
ListNewPage ==
    /\ wpc = "await"
    /\ fpc = "ret"
    /\ DropGetJson
    /\ IF ListingRaises(fres)
       THEN /\ exc' = "AttributeError"
            /\ wpc' = "raised"
            /\ UNCHANGED <<out, after, feed, lastAfter, sawOld>>
       ELSE LET children == ChildrenOf(fres)
                scan == ScanPage(children, out, max_items, FALSE)
            IN  /\ exc' = exc
                /\ feed' = feed \o children
                /\ lastAfter' = AfterOf(fres)
                /\ IF NoChildren(children)
                   THEN /\ wpc' = "ret"
                        /\ UNCHANGED <<out, after, sawOld>>
                   ELSE /\ out' = scan.out
                        /\ sawOld' = scan.met
                        /\ IF scan.stop \in {"old", "cap"}
                           THEN /\ wpc' = "ret"
                                /\ after' = after
                           ELSE /\ after' = AfterOf(fres)
                                /\ wpc' = IF NoCursor(AfterOf(fres)) THEN "ret" ELSE "loop"
    /\ UNCHANGED <<wsub, max_items, page, url, cfg, env, hvars, avars, cvars, svars>>

(* ---------------------------------------- list_new_posts called directly *)
InitWalk ==
    /\ cfg = [sleep_ms |-> 0, include_comments |-> FALSE,
              max_per_sub |-> MaxCap, comments_limit |-> 2, subs |-> DEFAULT_SUBS]
    /\ env = [max429 |-> 1, posts |-> {PostFire, PostFireLater, PostCat, PostOld}, maxPage |-> MaxPage,
              maxComments |-> 0,
              comments |-> CommentRecords]
    /\ NoCreds
    /\ NoGetJson
    /\ wpc = "loop"
    /\ wsub = "nova"
    /\ max_items \in 0..MaxCap
    /\ out = <<>>
    /\ after = None
    /\ page = 0
    /\ feed = <<>>
    /\ lastAfter = None
    /\ sawOld = FALSE
    /\ url = base_url
    /\ NoHarvest
    /\ exc = None
    /\ NoListComments
    /\ NoScore

NextWalk ==
    \/ ListNewLoop
    \/ ListNewPage
    \/ GetJsonRateLimited
    \/ GetJsonFailed
    \/ GetJsonOk

SpecWalk == InitWalk /\ [][NextWalk]_vars

(* --------------------- list_new_posts on a feed with items without a date *)
\* A walk with a cap of at least 1 over pages made of the given posts.
WalkOver(served) ==
    /\ cfg = [sleep_ms |-> 0, include_comments |-> FALSE,
              max_per_sub |-> MaxCap, comments_limit |-> 2, subs |-> DEFAULT_SUBS]
    /\ env = [max429 |-> 1, posts |-> served, maxPage |-> MaxPage,
              maxComments |-> 0, comments |-> CommentRecords]
    /\ NoCreds
    /\ NoGetJson
    /\ wpc = "loop"
    /\ wsub = "nova"
    /\ max_items \in 1..MaxCap
    /\ out = <<>>
    /\ after = None
    /\ page = 0
    /\ feed = <<>>
    /\ lastAfter = None
    /\ sawOld = FALSE
    /\ url = base_url
    /\ NoHarvest
    /\ exc = None
    /\ NoListComments
    /\ NoScore

InitFeed == WalkOver({PostFire, PostUndated, PostZero})

SpecFeed == InitFeed /\ [][NextWalk]_vars

(* ------------------------------------- list_new_posts walking to its end *)
InitPages == WalkOver({PostFire, PostOld})

\* The program is sequential and every request.get returns (timeout): a step
\* that can be taken is taken.
SpecPagesFair == InitPages /\ [][NextWalk]_vars /\ WF_vars(NextWalk)

(* ------------------------- list_new_posts called with or without credentials *)
InitAuth ==
    /\ cfg = [sleep_ms |-> 0, include_comments |-> FALSE,
              max_per_sub |-> MaxCap, comments_limit |-> 2, subs |-> DEFAULT_SUBS]
    /\ env = [max429 |-> 1, posts |-> {PostFire}, maxPage |-> 1, maxComments |-> 0,
              comments |-> CommentRecords]
    /\ has_creds \in BOOLEAN
    /\ token = None
    /\ exp = 0
    /\ clock = StartTime
    /\ xfailed = FALSE
    /\ NoGetJson
    /\ wpc = "loop"
    /\ wsub = "nova"
    /\ max_items \in 1..2
    /\ out = <<>>
    /\ after = None
    /\ page = 0
    /\ feed = <<>>
    /\ lastAfter = None
    /\ sawOld = FALSE
    /\ url = base_url
    /\ NoHarvest
    /\ exc = None
    /\ NoListComments
    /\ NoScore

NextAuth ==
    \/ ListNewLoop
    \/ ListNewPage
    \/ GetJsonRateLimited
    \/ GetJsonFailed
    \/ GetJsonOk

SpecAuth == InitAuth /\ [][NextAuth]_vars

(* ========================================================= list_comments *)
\* The for loop over the children of the comments section: non-"t1" records
\* are skipped (continue), a non-empty body is appended, and the loop breaks
\* once len(out) >= limit (tested after every "t1" record).  A child that is
\* no object ("null") makes it.get raise: the except clause ends the loop.
RECURSIVE ScanComments(_, _, _)
ScanComments(children, acc, limit) ==
    IF children = <<>> THEN acc
    ELSE IF Head(children).kind = "null" THEN acc
    ELSE IF Head(children).kind # "t1" THEN ScanComments(Tail(children), acc, limit)
    ELSE LET acc2 == IF Head(children).body # <<>>
                     THEN Append(acc, Head(children).body) ELSE acc
         IN  IF Len(acc2) >= limit THEN acc2
             ELSE ScanComments(Tail(children), acc2, limit)

\* list_comments on the value get_json returned: anything that is not a JSON
\* array of at least two sections gives [].
ListComments(data, limit) ==
    IF data.shape # "array" THEN <<>>
    ELSE ScanComments(data.children, <<>>, limit)

\* list_comments(sub, post_id, limit, ...): the comments page is asked for.
ListCommentsCall ==
    /\ cpc = "call"
    /\ CallGetJson([kind |-> "comments", host |-> base_url, sub |-> "nova", after |-> "p1"])
    /\ cpc' = "await"
    /\ UNCHANGED <<climit, cout, cfg, env, wvars, exc, hvars, avars, svars>>

\* get_json has returned: the bodies are collected and returned.
ListCommentsReturn ==
    /\ cpc = "await"
    /\ fpc = "ret"
    /\ DropGetJson
    /\ cout' = ListComments(fres, climit)
    /\ cpc' = "ret"
    /\ UNCHANGED <<climit, cfg, env, wvars, exc, hvars, avars, svars>>

(* ----------------------------------------- list_comments called directly *)
\* A child of the comments section that is no object.
NullChild == [kind |-> "null", body |-> BodyNone]

InitComments ==
    /\ cfg = [sleep_ms |-> 0, include_comments |-> TRUE,
              max_per_sub |-> 1, comments_limit |-> MaxLimit, subs |-> DEFAULT_SUBS]
    /\ env = [max429 |-> 1, posts |-> {PostFire}, maxPage |-> 1,
              maxComments |-> MaxComments + 2, comments |-> CommentRecords \cup {NullChild}]
    /\ NoCreds
    /\ NoGetJson
    /\ NoListNew
    /\ NoHarvest
    /\ exc = None
    /\ cpc = "call"
    /\ climit \in 0..MaxLimit
    /\ cout = <<>>
    /\ NoScore

NextComments ==
    \/ ListCommentsCall
    \/ ListCommentsReturn
    \/ GetJsonRateLimited
    \/ GetJsonFailed
    \/ GetJsonOk

SpecComments == InitComments /\ [][NextComments]_vars

(* ============================================== score_post called twice *)
ScoreFirst ==
    /\ spc = "args"
    /\ ra' = score_post(sa.title, sa.body, sa.score, sa.num_comments)
    /\ spc' = "one"
    /\ UNCHANGED <<sa, sb, rb, cfg, env, fvars, wvars, exc, hvars, avars, cvars>>

ScoreSecond ==
    /\ spc = "one"
    /\ rb' = score_post(sb.title, sb.body, sb.score, sb.num_comments)
    /\ spc' = "two"
    /\ UNCHANGED <<sa, sb, ra, cfg, env, fvars, wvars, exc, hvars, avars, cvars>>

InitScore ==
    /\ cfg = [sleep_ms |-> 0, include_comments |-> FALSE,
              max_per_sub |-> 1, comments_limit |-> MaxLimit, subs |-> DEFAULT_SUBS]
    /\ env = [max429 |-> 1, posts |-> {PostFire}, maxPage |-> 1,
              maxComments |-> 0, comments |-> CommentRecords]
    /\ NoCreds
    /\ NoGetJson
    /\ NoListNew
    /\ NoListComments
    /\ NoHarvest
    /\ exc = None
    /\ spc = "args"
    /\ sa \in ScoreArgs
    /\ sb \in ScoreArgs
    /\ ra = 0
    /\ rb = 0

NextScore == ScoreFirst \/ ScoreSecond

SpecScore == InitScore /\ [][NextScore]_vars

(* =============================================================== harvest *)
MatchesAlways(kws) == TRUE

\* `if contains_keywords(f"{title}\n{body}", KEYWORDS)`
Matches(kws) == kws # <<>>

RowScoredOnOwnBody(p, title, body, enc) ==
    [id |-> p.id, created_utc |-> p.created_utc,
     title |-> title, selftext |-> p.selftext,
     score |-> OrZero(p.score), num_comments |-> OrZero(p.num_comments),
     comments_scanned |-> 0,
     matched_keywords |-> JoinWith(KeywordsIn(Combined(title, body)), <<";">>),
     high_priority |-> IsHighPriority(Combined(title, body)),
     eas_score |-> score_post(title, p.selftext, OrZero(p.score), OrZero(p.num_comments)),
     enc |-> enc]

\* The row harvest appends for item p filtered on (title, body); enc is the
\* item's encounter number.  created_iso, subreddit, author, url and
\* permalink are copies of the item's fields and are left out.
RowOf(p, title, body, enc) ==
    [id |-> p.id, created_utc |-> p.created_utc,
     title |-> title, selftext |-> p.selftext,
     score |-> OrZero(p.score), num_comments |-> OrZero(p.num_comments),
     comments_scanned |-> 0,
     matched_keywords |-> JoinWith(KeywordsIn(Combined(title, body)), <<";">>),
     high_priority |-> IsHighPriority(Combined(title, body)),
     eas_score |-> score_post(title, body, OrZero(p.score), OrZero(p.num_comments)),
     enc |-> enc]

KeyAboveScoreOnly(a, b) == a.eas_score > b.eas_score

\* key(a) > key(b) for key = (eas_score, created_utc or 0)
KeyAbove(a, b) ==
    \/ a.eas_score > b.eas_score
    \/ a.eas_score = b.eas_score /\ OrZero(a.created_utc) > OrZero(b.created_utc)

\* r put into the descending list `sorted` behind every row whose key is not
\* below its own: rows of equal key keep their order (list.sort is stable,
\* also with reverse=True).
RECURSIVE InsertRow(_, _)
InsertRow(r, sorted) ==
    IF sorted = <<>> THEN <<r>>
    ELSE IF KeyAbove(r, Head(sorted)) THEN <<r>> \o sorted
    ELSE <<Head(sorted)>> \o InsertRow(r, Tail(sorted))

\* rows.sort(key=..., reverse=True)
RECURSIVE SortRows(_, _)
SortRows(todo, sorted) ==
    IF todo = <<>> THEN sorted
    ELSE SortRows(Tail(todo), InsertRow(Head(todo), sorted))

\* The body of `for p in posts` from the filter on: count the item, append
\* its row when the text matches.  asked: list_comments was called for the
\* item, and returned cm.
FilterItem(p, body, asked, cm) ==
    LET title == p.title
        kws == KeywordsIn(Combined(title, body))
        enc == Len(seen) + 1
    IN  /\ seen' = Append(seen, [post |-> p, body |-> body, asked |-> asked, cm |-> cm])
        /\ rows' = IF Matches(kws) THEN Append(rows, RowOf(p, title, body, enc)) ELSE rows

\* `for sub in subs`: the next source's listing is asked for.
HarvestListSub ==
    /\ hpc = "sub"
    /\ si <= Len(cfg.subs)
    /\ CallListNew(cfg.subs[si], cfg.max_per_sub)
    /\ hpc' = "listing"
    /\ UNCHANGED <<si, posts, pi, rows, seen, fvars, cfg, env, exc, avars, cvars, svars>>

\* posts = list_new_posts(...) has returned.
HarvestGotPosts ==
    /\ hpc = "listing"
    /\ wpc = "ret"
    /\ posts' = out
    /\ pi' = 1
    /\ hpc' = "item"
    /\ wpc' = "idle"
    /\ wsub' = None
    /\ max_items' = 0
    /\ out' = <<>>
    /\ after' = None
    /\ page' = 0
    /\ feed' = <<>>
    /\ lastAfter' = None
    /\ sawOld' = FALSE
    /\ url' = None
    /\ UNCHANGED <<si, rows, seen, fvars, cfg, env, exc, avars, cvars, svars>>

\* `for p in posts`: the next item; its comments are asked for first when
\* include_comments is set, else it is filtered at once.  After the last
\* item the source is done.
HarvestItem ==
    /\ hpc = "item"
    /\ IF pi > Len(posts)
       THEN /\ hpc' = "sub"
            /\ si' = si + 1
            /\ posts' = <<>>
            /\ pi' = 0
            /\ UNCHANGED <<rows, seen, fvars>>
       ELSE IF cfg.include_comments
       THEN /\ hpc' = "comments"
            /\ CallGetJson([kind |-> "comments", host |-> base_url, sub |-> cfg.subs[si], after |-> posts[pi].id])
            /\ UNCHANGED <<si, posts, pi, rows, seen>>
       ELSE /\ FilterItem(posts[pi], posts[pi].selftext, FALSE, <<>>)
            /\ pi' = pi + 1
            /\ UNCHANGED <<hpc, si, posts, fvars>>
    /\ UNCHANGED <<wvars, cfg, env, exc, avars, cvars, svars>>

\* cm = list_comments(...) has its answer: the body is augmented, the item filtered.
HarvestItemComments ==
    /\ hpc = "comments"
    /\ fpc = "ret"
    /\ DropGetJson
    /\ LET cm == ListComments(fres, cfg.comments_limit)
       IN  FilterItem(posts[pi], Augmented(posts[pi].selftext, cm), TRUE, cm)
    /\ pi' = pi + 1
    /\ hpc' = "item"
    /\ UNCHANGED <<si, posts, wvars, cfg, env, exc, avars, cvars, svars>>

\* After the last source: rows.sort(...), return rows.
HarvestFinish ==
    /\ hpc = "sub"
    /\ si > Len(cfg.subs)
    /\ rows' = SortRows(rows, <<>>)
    /\ hpc' = "done"
    /\ UNCHANGED <<si, posts, pi, seen, fvars, wvars, cfg, env, exc, avars, cvars, svars>>

\* The runs of harvest explored: two sources; without comments up to 2
\* items a source, with comments 1 item a source.
HarvestConfigs ==
    { [sleep_ms |-> 0, include_comments |-> c[1], max_per_sub |-> c[2],
       comments_limit |-> 2, subs |-> DEFAULT_SUBS]
      : c \in {<<FALSE, 1>>, <<FALSE, 2>>, <<TRUE, 1>>} }

Init ==
    /\ cfg \in HarvestConfigs
    /\ env = [max429 |-> 1, posts |-> {PostFire, PostFireLater, PostMarket, PostCat, PostOld},
              maxPage |-> 1, maxComments |-> MaxComments,
              comments |-> CommentRecords]
    /\ NoGetJson
    /\ NoListNew
    /\ hpc = "sub"
    /\ si = 1
    /\ posts = <<>>
    /\ pi = 0
    /\ rows = <<>>
    /\ seen = <<>>
    /\ exc = None
    /\ NoListComments
    /\ NoScore
    /\ NoCreds

Next ==
    \/ HarvestListSub
    \/ HarvestGotPosts
    \/ HarvestItem
    \/ HarvestItemComments
    \/ HarvestFinish
    \/ ListNewLoop
    \/ ListNewPage
    \/ GetJsonRateLimited
    \/ GetJsonFailed
    \/ GetJsonOk

Spec == Init /\ [][Next]_vars

(* ------------------------------------------------------ get_json: claims *)
\* The call gave up: it returned, and not from a 200 answer.
Abandoned == fpc = "ret" /\ Last(hist) # "ok"

\* C1 (as claimed): 429 answers do not count toward the give-up ceiling; a
\* call is given up only when more than 3 non-429 failures occurred in it.
C1_AbandonOnlyAfterFourFailures == Abandoned => NFail > RetryCeiling

\* C2: a call that meets no 429 gives up (returns {}) exactly on its 4th
\* failure, having issued exactly 4 requests; a success after fewer than 4
\* failures returns the body the remote sent.
C2_FourFailuresGiveUp ==
    N429 = 0 =>
        /\ fpc = "req" => NFail <= RetryCeiling
        /\ fpc = "ret" =>
              /\ Abandoned <=> NFail = RetryCeiling + 1
              /\ Abandoned => Len(hist) = RetryCeiling + 1 /\ fres = EmptyResult
              /\ ~Abandoned => NFail <= RetryCeiling /\ fres = sent

C2_Witness ==
    fpc = "ret" /\ hist = <<"fail", "fail", "fail", "fail">> /\ fres = EmptyResult

\* C3: a 429 answer never ends the call: the step that receives it leaves
\* the call in its loop with the same request, and a call that met only 429
\* answers and then a 200 returns that answer's body.
C3_RateLimitNeverGivesUp ==
    [][ /\ (fpc = "req" /\ hist' = Append(hist, "429")) => (fpc' = "req" /\ freq' = freq)
        /\ (fpc' = "ret" /\ NFail' = 0) => (Last(hist') = "ok" /\ fres' = sent')
      ]_vars

C3_Witness ==
    fpc = "ret" /\ N429 = Max429 /\ N429 > RetryCeiling /\ NFail = 0 /\ fres = sent
       /\ fres.shape = "listing"

\* C4 (as claimed): the wait after the k-th 429 of a call is min(30, 2^k),
\* k counting the 429 answers only, and the wait after the j-th other
\* failure is min(20, 2^j), j counting those failures only.
C4_WaitsFollowOwnCounters ==
    \A i \in 1..Len(waits) :
        waits[i] = IF hist[i] = "429"
                   THEN Min(RateWaitCap, Pow2(CountOf(SubSeq(hist, 1, i), "429")))
                   ELSE Min(RetryWaitCap, Pow2(CountOf(SubSeq(hist, 1, i), "fail")))
(* ------------------------------------------------ list_new_posts: claims *)
\* The longest prefix of s whose items are all dated at or after the cutoff.
RECURSIVE FreshPrefix(_)
FreshPrefix(s) ==
    IF s = <<>> \/ Created(Head(s)) < since_utc THEN <<>>
    ELSE <<Head(s)>> \o FreshPrefix(Tail(s))

Take(s, n) == SubSeq(s, 1, Min(n, Len(s)))

\* C5: list_new_posts never holds, and so never returns, more than max_items
\* items, for every cap from 0 and every sequence of pages and cursors.
C5_NeverMoreThanCap == Len(out) <= max_items

C5_Witness ==
    /\ wpc = "ret"
    /\ max_items > 0
    /\ Len(out) = max_items
    /\ Len(FreshPrefix(feed)) > max_items

\* C6: what list_new_posts returns is the longest prefix of the feed (the
\* pages received, concatenated) whose items are all dated at or after the
\* cutoff, cut to the cap; so every returned item is dated at or after it.
C6_ReturnsFreshPrefix ==
    wpc = "ret" =>
        /\ out = Take(FreshPrefix(feed), max_items)
        /\ \A i \in 1..Len(out) : Created(out[i]) >= since_utc

\* One page dated T+5, T+3, T-1 under a cap above 2: the first two come back.
C6_Witness ==
    /\ wpc = "ret"
    /\ page = 1
    /\ Len(feed) = 3
    /\ max_items > 2
    /\ <<Created(feed[1]), Created(feed[2]), Created(feed[3])>>
          = <<since_utc + 5, since_utc + 3, since_utc - 1>>
    /\ out = <<feed[1], feed[2]>>

\* C7: once an item older than the cutoff is met the walk is over: nothing
\* after that item is in out, even a newer item of the same page, and no
\* further page is requested although the page carried a cursor.
C7_StopsAtFirstOlder ==
    sawOld => /\ wpc = "ret"
              /\ fpc = "idle"
              /\ out = FreshPrefix(feed)

C7_Witness ==
    /\ sawOld
    /\ wpc = "ret"
    /\ lastAfter # None
    /\ Len(out) + 1 < max_items
    /\ \E i \in 1..(Len(feed) - 1) :
          Created(feed[i]) < since_utc /\ Created(feed[i + 1]) >= since_utc
(* ------------------------------------------------------- harvest: claims *)
\* C8 (as claimed): whatever the remote answers, no exception leaves
\* harvest, so the run goes on to every later source and returns.
C8_HarvestNeverRaises == exc = None

\* The rows appended for the item of encounter number e.
RowsOf(e) == {i \in DOMAIN rows : rows[i].enc = e}

\* C9: in what harvest returns, of any two rows the earlier one has the
\* higher eas_score, or the same score and the later created_utc, or the
\* same of both and the earlier encounter.
C9_SortedByScoreThenTime ==
    hpc = "done" =>
        \A i, j \in DOMAIN rows :
            i < j =>
                \/ rows[i].eas_score > rows[j].eas_score
                \/ /\ rows[i].eas_score = rows[j].eas_score
                   /\ rows[i].created_utc > rows[j].created_utc
                \/ /\ rows[i].eas_score = rows[j].eas_score
                   /\ rows[i].created_utc = rows[j].created_utc
                   /\ rows[i].enc < rows[j].enc

\* The sort had rows to move, a tie on the score and a tie on both keys.
C9_Witness ==
    /\ hpc = "done"
    /\ \E i, j \in DOMAIN rows : i < j /\ rows[i].enc > rows[j].enc
    /\ \E i, j \in DOMAIN rows :
          /\ rows[i].eas_score = rows[j].eas_score
          /\ rows[i].created_utc > rows[j].created_utc
    /\ \E i, j \in DOMAIN rows :
          /\ i # j
          /\ rows[i].eas_score = rows[j].eas_score
          /\ rows[i].created_utc = rows[j].created_utc
    /\ \E i, j \in DOMAIN rows : rows[i].eas_score > rows[j].eas_score

\* C10 (as claimed): an item harvest has gone through has a row iff its own
\* title and body, combined, hold a keyword.
C10_RowIffTitleBodyMatches ==
    \A e \in DOMAIN seen :
        RowsOf(e) # {}
            <=> KeywordsIn(Combined(seen[e].post.title, seen[e].post.selftext)) # <<>>

\* C10 (amended): every item list_new_posts returned is gone through in
\* order, and has exactly one row if the text harvest filtered it on (title
\* and body, the body augmented with the fetched comment bodies when
\* include_comments is set) holds a keyword, and no row otherwise; every
\* row's matched_keywords is non-empty.
C10_RowIffFilteredTextMatches ==
    /\ \A e \in DOMAIN seen :
          Cardinality(RowsOf(e))
              = IF KeywordsIn(Combined(seen[e].post.title, seen[e].body)) # <<>>
                THEN 1 ELSE 0
    /\ \A i \in DOMAIN rows : rows[i].enc \in DOMAIN seen /\ rows[i].matched_keywords # <<>>
    /\ hpc \in {"item", "comments"} =>
          /\ Len(seen) >= pi - 1
          /\ \A k \in 1..(pi - 1) : seen[Len(seen) - (pi - 1) + k].post = posts[k]

\* An item with no keyword of its own that got a row through a comment, and
\* an item that got none.
C10_Witness ==
    /\ hpc = "done"
    /\ \E e \in DOMAIN seen :
          /\ KeywordsIn(Combined(seen[e].post.title, seen[e].post.selftext)) = <<>>
          /\ RowsOf(e) # {}
    /\ \E e \in DOMAIN seen : RowsOf(e) = {}

(* ---------------------------------------------------- RedditAuth: claims *)
\* C11 (as claimed): once a token exchange has failed, every request that is
\* issued carries no Authorization header and goes to the public host, not
\* to the private API host.
C11_FallbackToPublicHost ==
    (xfailed /\ hdr # NoHeaders) => (hdr.authz = None /\ freq.host = PUBLIC_HOST)

\* C12 (as claimed): once a token exchange has failed, every later headers()
\* call of the run omits Authorization: the provider stays downgraded.
C12_StaysDowngraded ==
    (xfailed /\ hdr # NoHeaders) => (hdr.authz = None /\ token = None)

\* C13: headers() always carries User-Agent; it carries Authorization only
\* with credentials and a token obtained, which is then the token held; with
\* credentials, the credential grant is called iff no token is held or the
\* clock is at or past expiry - 30, and a call that does not ask for a grant
\* returns the held token as bearer and leaves token and expiry alone.
C13_ReusesTokenUntilMargin ==
    /\ hdr # NoHeaders => hdr.ua = USER_AGENT
    /\ hdr.authz # None => (has_creds /\ probe.called /\ hdr.authz \in Tokens /\ hdr.authz = token)
    /\ ~has_creds => (~probe.called /\ token = None)
    /\ probe.called =>
          /\ probe.granted <=> (probe.held = None \/ probe.at >= probe.heldExp - 30)
          /\ ~probe.granted =>
                (hdr.authz = probe.held /\ token = probe.held /\ exp = probe.heldExp)

\* A token granted earlier is reused at a later clock reading, still more
\* than 30 seconds before its expiry.
C13_Witness ==
    /\ probe.called
    /\ ~probe.granted
    /\ probe.at > StartTime
    /\ probe.heldExp - probe.at <= 50
    /\ hdr.authz = probe.held
    /\ hdr.authz \in Tokens

(* ------------------------------------------------- list_comments: claims *)
\* C14 (as claimed): list_comments returns at most limit bodies, for every
\* limit from 0 and every response, none of them empty, and returns the
\* empty sequence, without raising, when the fetch was given up or the
\* response is no sequence of at least two sections.
C14_AtMostLimitBodies ==
    cpc = "ret" =>
        /\ Len(cout) <= climit
        /\ \A i \in DOMAIN cout : cout[i] # BodyNone
        /\ exc = None

(* ---------------------------------------------------- score_post: claims *)
\* What the text of a call's arguments holds, read from the tables.
KwCount(a) == Len(KeywordTable[Combined(a.title, a.body)])
HasPriority(a) == PriorityTable[Combined(a.title, a.body)]
HasPlace(a) == PlaceTable[Combined(a.title, a.body)]

\* The second call's text is high priority and names the place, the first
\* call's text is neither, and the keyword count, upvote score and comment
\* count of the two calls are the same.
BothAgainstNeither ==
    /\ spc = "two"
    /\ ~HasPriority(sa) /\ ~HasPlace(sa)
    /\ HasPriority(sb) /\ HasPlace(sb)
    /\ KwCount(sa) = KwCount(sb)
    /\ sa.score = sb.score
    /\ sa.num_comments = sb.num_comments

\* C15 (as claimed): with both conditions the score is exactly 12 higher
\* than with neither, all else equal.
C15_BothBonusesAddTwelve == BothAgainstNeither => rb = ra + 1200

\* C15 (amended): with both conditions the score is exactly 13 higher than
\* with neither (10 for high priority and 3 for the place name), all else
\* equal.
C15_BothBonusesAddThirteen == BothAgainstNeither => rb = ra + 1300

C15_Witness ==
    /\ BothAgainstNeither
    /\ sa.score = MaxVotes
    /\ sa.num_comments = 1
    /\ ra = 150 + 20 * MaxVotes + 10

\* C16: with the two bonus conditions the same in both calls, the score does
\* not decrease when the keyword count grows and is the same for any two
\* counts of 10 or more (upvote score and comment count fixed), does not
\* decrease when the upvote score grows (the rest fixed) nor when the
\* comment count grows (the rest fixed); an absent upvote score or comment
\* count scores as 0.
C16_ScoreMonotone ==
    (spc = "two" /\ HasPriority(sa) = HasPriority(sb) /\ HasPlace(sa) = HasPlace(sb)) =>
        /\ (sa.score = sb.score /\ sa.num_comments = sb.num_comments) =>
              /\ KwCount(sa) <= KwCount(sb) => ra <= rb
              /\ (KwCount(sa) >= 10 /\ KwCount(sb) >= 10) => ra = rb
        /\ (KwCount(sa) = KwCount(sb) /\ sa.num_comments = sb.num_comments) =>
              /\ OrZero(sa.score) <= OrZero(sb.score) => ra <= rb
              /\ (sa.score = Absent /\ sb.score = 0) => ra = rb
        /\ (KwCount(sa) = KwCount(sb) /\ sa.score = sb.score) =>
              /\ OrZero(sa.num_comments) <= OrZero(sb.num_comments) => ra <= rb
              /\ (sa.num_comments = Absent /\ sb.num_comments = 0) => ra = rb

\* Ten keywords against eleven, the rest the same: the same score.
C16_Witness ==
    /\ spc = "two"
    /\ KwCount(sa) = 10
    /\ KwCount(sb) = 11
    /\ sa.score = sb.score /\ sa.score > 0
    /\ sa.num_comments = sb.num_comments
    /\ ra = rb
    /\ ra = 1500 + 20 * sa.score + 10 * OrZero(sa.num_comments)

(* ------------------------------------- list_new_posts: pagination claims *)
\* The items of the page the step has just received.
NewItems == SubSeq(feed', Len(feed) + 1, Len(feed'))

\* C17: the step that receives a page keeps the items accumulated so far,
\* in order, as a prefix of out; a page without items (also the empty result
\* of a fetch that was given up) ends the walk with out unchanged; a page
\* without cursor ends the walk; the walk goes on only after a page with
\* items and a cursor.  The first page request carries no cursor, and every
\* later one carries the cursor of the page received just before it.
C17_EndsOnEmptyPageOrNoCursor ==
    [][ /\ (wpc = "await" /\ wpc' # "await" /\ exc' = None) =>
              /\ SubSeq(out', 1, Len(out)) = out
              /\ NewItems = <<>> => (wpc' = "ret" /\ out' = out)
              /\ lastAfter' = None => wpc' = "ret"
              /\ wpc' = "loop" => (NewItems # <<>> /\ lastAfter' # None)
        /\ (wpc' = "await" /\ wpc # "await") =>
              /\ freq'.kind = "listing"
              /\ page' = 1 => freq'.after = None
              /\ page' > 1 => (freq'.after = lastAfter /\ lastAfter # None)
      ]_vars

\* A second page was asked for with the cursor of the first and came back
\* empty: the one item of the first page is returned.
C17_Witness ==
    /\ wpc = "ret"
    /\ page = 2
    /\ max_items > 1
    /\ Len(feed) = 1
    /\ out = feed
    /\ lastAfter = None

\* C19: a walk with a cap of at least 1 fetches at most max_items pages:
\* every page received either ends the walk or adds an item, so the number
\* of pages asked for never exceeds the number of items held plus one; and
\* the walk ends.
C19_AtMostCapPages ==
    /\ [](max_items >= 1 =>
            /\ page <= max_items
            /\ wpc = "loop" => page <= Len(out)
            /\ wpc = "await" => page <= Len(out) + 1)
    /\ <>(wpc \in {"ret", "raised"})

\* Every page carried one item and the same cursor: as many pages as the cap.
C19_Witness ==
    /\ wpc = "ret"
    /\ max_items = MaxCap
    /\ page = max_items
    /\ Len(out) = max_items
    /\ Len(feed) = max_items
    /\ lastAfter \in Cursors

\* C20: an item without creation timestamp, or with timestamp 0, counts as
\* created at time 0, before the cutoff: it is not in out, it ends the walk
\* (no further page is asked for), and nothing that follows it in the feed
\* is in out: out is the feed up to the item before it, cut to the cap.
C20_UndatedItemEndsScan ==
    \A i \in DOMAIN feed :
        feed[i].created_utc \in {Absent, 0} =>
            /\ Len(out) < i
            /\ out = SubSeq(feed, 1, Len(out))
            /\ \A k \in DOMAIN out : out[k].created_utc \notin {Absent, 0}
            /\ Len(out) < max_items => (sawOld /\ Len(out) < i)
            /\ (\A k \in 1..(i - 1) : feed[k].created_utc \notin {Absent, 0}) =>
                  out = Take(SubSeq(feed, 1, i - 1), max_items)
            /\ wpc = "ret"
            /\ fpc = "idle"

\* An item without timestamp in the middle of a page, a dated one behind it,
\* room under the cap and a cursor for a further page.
C20_Witness ==
    /\ wpc = "ret"
    /\ \E i \in 2..(Len(feed) - 1) :
          /\ feed[i].created_utc = Absent
          /\ feed[i + 1].created_utc > since_utc
          /\ Len(out) = i - 1
    /\ Len(out) + 1 < max_items
    /\ lastAfter \in Cursors

(* ------------------------------------------ harvest: comment augmentation *)
\* The text item e was filtered on.
FilteredText(e) == Combined(seen[e].post.title, seen[e].body)

\* C18: with include_comments every item's comments are asked for before
\* the item is filtered, and the text it is filtered on is its title and its
\* body augmented with the bodies fetched; the decision to make a row, the
\* row's matched_keywords, high_priority and eas_score all come from that
\* one text, and the row's title and selftext are the item's own.  Without
\* include_comments no comments request is issued and the text is the item's
\* title and body.
C18_RowFromAugmentedText ==
    /\ \A e \in DOMAIN seen :
          /\ seen[e].asked = cfg.include_comments
          /\ seen[e].body = IF seen[e].asked
                            THEN Augmented(seen[e].post.selftext, seen[e].cm)
                            ELSE seen[e].post.selftext
          /\ RowsOf(e) # {} <=> KeywordTable[FilteredText(e)] # <<>>
    /\ \A i \in DOMAIN rows :
          LET post == seen[rows[i].enc].post
              text == FilteredText(rows[i].enc)
          IN  /\ rows[i].matched_keywords = JoinWith(KeywordTable[text], <<";">>)
              /\ rows[i].high_priority = PriorityTable[text]
              /\ rows[i].eas_score =
                    Min(10, Len(KeywordTable[text])) * 150
                    + OrZero(post.score) * 20 + OrZero(post.num_comments) * 10
                    + (IF PriorityTable[text] THEN 1000 ELSE 0)
                    + (IF PlaceTable[text] THEN 300 ELSE 0)
              /\ rows[i].title = post.title
              /\ rows[i].selftext = post.selftext
    /\ ~cfg.include_comments => (hpc # "comments" /\ freq.kind # "comments")
    /\ hpc = "comments" => (freq.kind \in {"comments", "none"} /\ Len(seen) >= pi - 1)

\* A row of an item without keyword of its own: keyword, priority and score
\* come from a fetched comment, title and selftext are the item's.
C18_Witness ==
    /\ hpc = "done"
    /\ cfg.include_comments
    /\ \E i \in DOMAIN rows :
          LET s == seen[rows[i].enc]
          IN  /\ s.cm # <<>>
              /\ KeywordTable[Combined(s.post.title, s.post.selftext)] = <<>>
              /\ rows[i].high_priority
              /\ rows[i].eas_score > 1000
              /\ rows[i].selftext = s.post.selftext
              /\ rows[i].selftext # s.body
    /\ \E e \in DOMAIN seen : seen[e].asked /\ seen[e].cm = <<>> /\ RowsOf(e) = {}
====
